---- MODULE Spec2Model ----
(***************************************************************************)
(* A model of django_usernamefield.UsernameField: the save-time copy of    *)
(* User.username onto a model (pre_save), the process-wide registry of     *)
(* field uses (instances, filled by contribute_to_class) and the two       *)
(* registry-driven batch operations rename_username and lint.              *)
(*                                                                         *)
(* Python strings are sequences of one-character strings, so that slicing  *)
(* is computed and not assumed.  A database row and an in-memory model     *)
(* instance are functions from attribute name to value.                    *)
(***************************************************************************)
EXTENDS Integers, Sequences, FiniteSets, TLC

\* The fields of the records of the model and what each holds.  Every record
\* below lists its fields in this order.
Legend ==
    [op |-> "the operation that ended last",
     field |-> "the field instance of a call",
     add |-> "pre_save's add argument",
     orig |-> "the instance before the first of successive pre_save calls",
     before |-> "the instance before the call",
     obj |-> "the instance after the call",
     raised |-> "the exception that left the call, empty when it returned",
     ret |-> "the value returned",
     calls |-> "how many pre_save calls the instance has had",
     user_id |-> "rename_username's first argument",
     username |-> "a username: rename_username's second argument, a user's",
     pos |-> "the iteration the loop of rename_username is at",
     log |-> "the writes a rename_username call has made, in order",
     canonical0 |-> "the User table when rename_username was called",
     printed |-> "the lines lint printed",
     queried |-> "the registry entries lint queried",
     interrupted |-> "the interrupted rename_username call lint ran after",
     populate_from |-> "the name of the relation a field copies from",
     max_length |-> "the length a field truncates to",
     name |-> "the attribute a field is bound to",
     cls |-> "a model class",
     exc |-> "the exception an evaluation raises, empty when none",
     isNone |-> "whether a relation is null",
     attr |-> "the value of an attribute",
     kind |-> "I or W: the kind of a printed line",
     model |-> "the model a printed line names",
     target |-> "the field a printed line names",
     total |-> "the number of primary keys a printed line gives",
     qs |-> "the primary keys a printed line gives"]

VARIABLES
    instances,   \* UsernameField.instances: the registry, a list of 4-tuples
    registered,  \* history: every contribute_to_class call made, in call order
    users,       \* the auth User table: primary key -> username
    rows,        \* the tables of the concrete models: model -> (pk -> row)
    pc,          \* "idle", or "rename" while rename_username is between statements
    rn,          \* the running rename_username call: arguments, loop position, writes
    last         \* the operation that ended last, with its inputs and results

vars == <<instances, registered, users, rows, pc, rn, last>>

---------------------------------------------------------------------------
(* Bounds of the model *)

\* contribute_to_class calls explored
MaxRegs == 2

\* successive pre_save calls on one in-memory instance
MaxCalls == 2

---------------------------------------------------------------------------
(* Strings *)

Empty == <<>>
alice == <<"a", "l", "i", "c", "e">>
alic == <<"a", "l", "i", "c">>
christopher == <<"c", "h", "r", "i", "s", "t", "o", "p", "h", "e", "r">>

\* kwargs.pop('max_length', 30)
DefaultMaxLength == 30

\* kwargs.pop('populate_from', 'user')
DefaultPopulateFrom == "user"

\* if max_length < 30
LintThreshold == 30

\* a username longer than the default max_length
LongName == [i \in 1..(DefaultMaxLength + 1) |-> "x"]

\* a slip: s[:m - 1], one character short
SliceDropsLast(s, m) ==
    SubSeq(s, 1, IF m - 1 < Len(s) THEN (IF m - 1 < 0 THEN 0 ELSE m - 1) ELSE Len(s))

\* Python's s[:m]: the first m items, all of s when it is shorter; a negative m
\* counts from the end.
Slice(s, m) ==
    IF m >= 0
    THEN SubSeq(s, 1, IF m < Len(s) THEN m ELSE Len(s))
    ELSE SubSeq(s, 1, IF Len(s) + m > 0 THEN Len(s) + m ELSE 0)

---------------------------------------------------------------------------
(* Field instances and the classes that declare them *)

\* "user is None": the value of a relation that has no related object
None == 0

\* Keyword arguments: each keyword holds the set of the value given for it,
\* empty when the keyword is not given.
Given(x) == {x}

NotGiven == {}

\* kwargs.pop(key, default)
Pop(values, default) ==
    IF values = NotGiven THEN default ELSE CHOOSE x \in values : TRUE

\* UsernameField.__init__: populate_from and max_length come from the keyword
\* arguments, with defaults 'user' and 30.
UsernameField(kwargs) ==
    [populate_from |-> Pop(kwargs.populate_from, DefaultPopulateFrom),
     max_length |-> Pop(kwargs.max_length, DefaultMaxLength)]

NoKwargs == [populate_from |-> NotGiven, max_length |-> NotGiven]

\* The model classes of the application.  Base is abstract and declares the field
\* ModelA inherits; the declarations follow the class docstring:
\*   class ModelA(Base):  user = ForeignKey(User);   uname_a = UsernameField()
\*   class ModelB(Model): author = ForeignKey(User)
\*                        uname_b = UsernameField(populate_from='author', max_length=10)
Models == {"ModelA", "ModelB", "Base"}

\* cls._meta.abstract
Abstract(cls) == cls = "Base"

Concrete == {cls \in Models : ~Abstract(cls)}

\* The contribute_to_class calls class construction makes: (cls, name, field).
Declarations ==
    {[field |-> UsernameField(NoKwargs), name |-> "uname_a", cls |-> "ModelA"],
     [field |-> UsernameField(NoKwargs), name |-> "uname_a", cls |-> "Base"],
     [field |-> UsernameField([populate_from |-> Given("author"),
                               max_length |-> Given(10)]),
      name |-> "uname_b", cls |-> "ModelB"]}

DeclarationOf(cls) == CHOOSE d \in Declarations : d.cls = cls

\* A field bound to its attribute name (self.name is set when the field is
\* attached to a class).
Bound(field, name) ==
    [populate_from |-> field.populate_from, max_length |-> field.max_length,
     name |-> name]

---------------------------------------------------------------------------
(* The database *)

UserIds == {1, 2}

\* ids a foreign key column can hold: None, an existing user, or a stale id
FkValues == {None} \cup UserIds

RowOf(source, fk, target, value) ==
    [attr \in {source, target} |-> IF attr = source THEN fk ELSE value]

\* the values a column of the given max_length can hold in the explored states
StoredValues(max_length) ==
    {Slice(v, max_length) : v \in {Empty, alice, christopher}}

RowsFor(cls) ==
    LET d == DeclarationOf(cls) IN
    {RowOf(d.field.populate_from, fk, d.name, v) :
        fk \in FkValues, v \in StoredValues(d.field.max_length)}

Pks == {1}

---------------------------------------------------------------------------
(* pre_save *)

\* getattr(obj, self.populate_from): the related user, None for a null relation,
\* and ObjectDoesNotExist when the referenced row is missing.
Related(obj, populate_from) ==
    LET id == obj[populate_from] IN
    IF id = None THEN [username |-> Empty, exc |-> "", isNone |-> TRUE]
    ELSE IF id \in DOMAIN users
         THEN [username |-> users[id], exc |-> "", isNone |-> FALSE]
         ELSE [username |-> Empty, exc |-> "ObjectDoesNotExist", isNone |-> FALSE]

\* user.username: an attribute None does not have
UsernameOf(related) ==
    IF related.isNone
    THEN [exc |-> "AttributeError", attr |-> Empty]
    ELSE [exc |-> "", attr |-> related.username]

\* a slip: no except clause
CatchesNothing(exc) == FALSE

\* except ObjectDoesNotExist: pass
Catches(exc) == exc = "ObjectDoesNotExist"

\* a slip: no test for None
TreatsNoneAsUser(related) == FALSE

\* "if user is None"
IsNone(related) == related.isNone

\* a slip: no test of the current value
PopulatesAlways(obj, field) == TRUE

\* "if getattr(obj, self.name) == ''"
NeedsPopulating(obj, field) == obj[field.name] = Empty

\* The body of pre_save: the instance as the call leaves it, the exception that
\* leaves the call ("" when it returns) and the value returned.
pre_save(field, obj, add) ==
    LET after ==
            IF NeedsPopulating(obj, field)
            THEN LET user == Related(obj, field.populate_from) IN
                 IF user.exc # ""
                 THEN [obj |-> obj,
                       raised |-> IF Catches(user.exc) THEN "" ELSE user.exc]
                 ELSE IF IsNone(user)
                 THEN [obj |-> [obj EXCEPT ![field.name] = Empty], raised |-> ""]
                 ELSE LET got == UsernameOf(user) IN
                      IF got.exc # ""
                      THEN [obj |-> obj, raised |-> got.exc]
                      ELSE [obj |-> [obj EXCEPT ![field.name] =
                                         Slice(got.attr, field.max_length)],
                            raised |-> ""]
            ELSE [obj |-> obj, raised |-> ""]
    IN  [obj |-> after.obj, raised |-> after.raised,
         ret |-> IF after.raised = "" THEN after.obj[field.name] ELSE Empty]

\* One pre_save call on a fresh in-memory instance.
PreSave(field, obj, add) ==
    /\ pc = "idle"
    /\ LET r == pre_save(field, obj, add) IN
       last' = [op |-> "pre_save", field |-> field, add |-> add, orig |-> obj,
                before |-> obj, obj |-> r.obj, raised |-> r.raised, ret |-> r.ret,
                calls |-> 1]
    /\ UNCHANGED <<instances, registered, users, rows, pc, rn>>

\* pre_save again on the instance the previous call returned (two saves in
\* succession).
PreSaveAgain ==
    /\ pc = "idle"
    /\ last.op = "pre_save"
    /\ last.raised = ""
    /\ last.calls < MaxCalls
    /\ \E add \in BOOLEAN :
         LET r == pre_save(last.field, last.obj, add) IN
         last' = [op |-> "pre_save", field |-> last.field, add |-> add,
                  orig |-> last.orig, before |-> last.obj, obj |-> r.obj,
                  raised |-> r.raised, ret |-> r.ret, calls |-> last.calls + 1]
    /\ UNCHANGED <<instances, registered, users, rows, pc, rn>>

\* pre_save of a registered field on an instance loaded from its table.
PreSaveLoaded ==
    \E i \in 1..Len(instances) :
      LET e == instances[i] IN
      \E pk \in DOMAIN rows[e[1]], add \in BOOLEAN :
        PreSave(Bound([populate_from |-> e[2], max_length |-> e[4]], e[3]),
                rows[e[1]][pk], add)

---------------------------------------------------------------------------
(* contribute_to_class *)

\* a slip: no test of cls._meta.abstract
RegistersAbstractToo(cls) == TRUE

\* "if not cls._meta.abstract"
Registers(cls) == ~Abstract(cls)

contribute_to_class(field, cls, name) ==
    /\ pc = "idle"
    /\ Len(registered) < MaxRegs
    /\ instances' = IF Registers(cls)
                    THEN Append(instances,
                                <<cls, field.populate_from, name, field.max_length>>)
                    ELSE instances
    /\ registered' = Append(registered, [field |-> field, name |-> name, cls |-> cls])
    /\ last' = [op |-> "contribute_to_class"]
    /\ UNCHANGED <<users, rows, pc, rn>>

Register == \E d \in Declarations : contribute_to_class(d.field, d.cls, d.name)

---------------------------------------------------------------------------
(* rename_username *)

Idle == [user_id |-> None, username |-> Empty, pos |-> 0, log |-> <<>>,
         canonical0 |-> <<>>]

\* the write log's name for the canonical User table (entries are logged by
\* their position in the registry)
UserTable == 0

\* a slip: filter(pk=user_id)
FilterByPk(model, source, user_id) ==
    {pk \in DOMAIN rows[model] : pk = user_id}

\* model.objects.filter(**{source: user_id}): the primary keys selected
Filter(model, source, user_id) ==
    {pk \in DOMAIN rows[model] : rows[model][pk][source] = user_id}

\* .update(**{target: value}) on the selected rows of one table
Update(model, pks, target, value) ==
    [rows EXCEPT ![model] =
        [pk \in DOMAIN @ |-> IF pk \in pks THEN [@[pk] EXCEPT ![target] = value]
                                            ELSE @[pk]]]

\* a slip: the loop runs over reversed(cls.instances)
VisitReversed(i) == Len(instances) + 1 - i

\* the registry entry the i-th iteration of "for ... in cls.instances" visits
Visit(i) == i

\* a slip: the username is written uncut
WrittenUntruncated(username, max_length) == username

\* username[:max_length]: the value written to the target column of one entry
Written(username, max_length) == Slice(username, max_length)

\* the value written to the canonical User.username
Canonical(username) == username

\* the call is made: nothing is written yet
RenameStart ==
    /\ pc = "idle"
    /\ \E user_id \in UserIds, username \in {alice, christopher} :
         rn' = [user_id |-> user_id, username |-> username, pos |-> 1, log |-> <<>>,
                canonical0 |-> users]
    /\ pc' = "rename"
    /\ last' = [op |-> "call"]
    /\ UNCHANGED <<instances, registered, users, rows>>

\* one iteration of the loop: the bulk update of one registry entry
RenameEntry ==
    /\ pc = "rename"
    /\ rn.pos <= Len(instances)
    /\ LET k == Visit(rn.pos)
           e == instances[k]
           model == e[1]
           source == e[2]
           target == e[3]
           max_length == e[4]
       IN  /\ rows' = Update(model, Filter(model, source, rn.user_id), target,
                             Written(rn.username, max_length))
           /\ rn' = [rn EXCEPT !.pos = @ + 1, !.log = Append(@, k)]
    /\ UNCHANGED <<instances, registered, users, pc, last>>

\* User.objects.filter(pk=user_id).update(username=username), and the return
RenameUser ==
    /\ pc = "rename"
    /\ rn.pos > Len(instances)
    /\ users' = [id \in DOMAIN users |->
                    IF id = rn.user_id THEN Canonical(rn.username) ELSE users[id]]
    /\ pc' = "idle"
    /\ last' = [op |-> "rename_username", user_id |-> rn.user_id,
                username |-> rn.username, log |-> Append(rn.log, UserTable)]
    /\ rn' = Idle
    /\ UNCHANGED <<instances, registered, rows>>

\* the call ends between two statements (an error of the database, the process
\* stopping): nothing is rolled back
Interrupt ==
    /\ pc = "rename"
    /\ pc' = "idle"
    /\ last' = [op |-> "interrupted", user_id |-> rn.user_id,
                username |-> rn.username, log |-> rn.log]
    /\ rn' = Idle
    /\ UNCHANGED <<instances, registered, users, rows>>

---------------------------------------------------------------------------
(* lint *)

\* a slip: max_length <= 30
SkipsUpToThreshold(max_length) == max_length <= LintThreshold

\* "if max_length < 30: ... continue"
Skips(max_length) == max_length < LintThreshold

\* filter('%s__username' % source = F(target)): the rows whose related user
\* exists and has the username the target column holds
Matches(row, source, target) ==
    /\ row[source] \in DOMAIN users
    /\ users[row[source]] = row[target]

\* a slip: filter() where exclude() is meant
ExcludeKeepsMatching(model, source, target) ==
    {pk \in DOMAIN rows[model] : Matches(rows[model][pk], source, target)}

\* model.objects.exclude(...).values_list('pk', flat=True): the other rows
Exclude(model, source, target) ==
    {pk \in DOMAIN rows[model] : ~Matches(rows[model][pk], source, target)}

\* what the loop prints and which entries it queries, from entry i on
RECURSIVE LintFrom(_)
LintFrom(i) ==
    IF i > Len(instances) THEN [printed |-> <<>>, queried |-> <<>>]
    ELSE LET e == instances[i]
             model == e[1]
             source == e[2]
             target == e[3]
             max_length == e[4]
             rest == LintFrom(i + 1)
         IN  IF Skips(max_length)
             THEN [printed |-> <<[kind |-> "I", model |-> model, target |-> target,
                                  total |-> 0, qs |-> {}]>> \o rest.printed,
                   queried |-> rest.queried]
             ELSE LET qs == Exclude(model, source, target) IN
                  IF qs = {}
                  THEN [printed |-> rest.printed, queried |-> <<i>> \o rest.queried]
                  ELSE [printed |-> <<[kind |-> "W", model |-> model,
                                       target |-> target, total |-> Cardinality(qs),
                                       qs |-> qs]>> \o rest.printed,
                        queried |-> <<i>> \o rest.queried]

lint ==
    /\ pc = "idle"
    /\ last' = [op |-> "lint", printed |-> LintFrom(1).printed,
                queried |-> LintFrom(1).queried,
                interrupted |-> IF last.op = "interrupted" THEN <<last>> ELSE <<>>]
    /\ UNCHANGED <<instances, registered, users, rows, pc, rn>>

---------------------------------------------------------------------------
(* Specifications *)

\* the keyword arguments fields are declared with
Kwargs ==
    [populate_from : {NotGiven, Given("author")},
     max_length : {NotGiven} \cup {Given(m) : m \in {0, 1, 4, 10}}]

\* pre_save of any field on any in-memory instance of its model
PreSaveFresh ==
    \E kwargs \in Kwargs, fk \in FkValues, value \in {Empty, alice, christopher},
       add \in BOOLEAN :
      LET field == Bound(UsernameField(kwargs), "username") IN
      PreSave(field, RowOf(field.populate_from, fk, field.name, value), add)

\* pre_save alone: any field configuration, any instance, any username (the
\* registry and the tables play no part and stay empty)
InitPreSave ==
    /\ instances = <<>>
    /\ registered = <<>>
    /\ users \in [{1} -> {Empty, alice, christopher, LongName}]
    /\ rows = [cls \in Concrete |-> <<>>]
    /\ pc = "idle"
    /\ rn = Idle
    /\ last = [op |-> "none"]

NextPreSave ==
    \/ PreSaveFresh
    \/ PreSaveAgain

SpecPreSave == InitPreSave /\ [][NextPreSave]_vars

\* The process starts with an empty registry; the database holds one user and
\* the rows earlier runs left, of any content the columns can hold.
Init ==
    /\ instances = <<>>
    /\ registered = <<>>
    /\ users \in [{1} -> {alice, christopher}]
    /\ \E ra \in [Pks -> RowsFor("ModelA")], rb \in [Pks -> RowsFor("ModelB")] :
         rows = [cls \in Concrete |-> IF cls = "ModelA" THEN ra ELSE rb]
    /\ pc = "idle"
    /\ rn = Idle
    /\ last = [op |-> "none"]

Next ==
    \/ Register
    \/ PreSaveLoaded
    \/ PreSaveAgain
    \/ RenameStart
    \/ RenameEntry
    \/ RenameUser
    \/ Interrupt
    \/ lint

Spec == Init /\ [][Next]_vars

---------------------------------------------------------------------------
(* Properties of pre_save, checked under SpecPreSave *)

\* the first m characters of u, u itself when it has no more than m
FirstChars(u, m) == [i \in 1..(IF Len(u) <= m THEN Len(u) ELSE m) |-> u[i]]

\* the call that ended last is a pre_save call
Saved == last.op = "pre_save"

\* the target attribute of an instance, for the field of the last call
TargetOf(obj) == obj[last.field.name]

\* the relation of the last call's instance: its id, and whether it resolves
SourceOf(obj) == obj[last.field.populate_from]

Resolves(obj) == SourceOf(obj) \in DOMAIN users

Dangling(obj) == SourceOf(obj) # None /\ ~Resolves(obj)

\* C1: pre_save on an instance whose target is empty and whose relation
\* resolves to a user with a non-empty username u leaves the target equal to
\* the first max_length characters of u (u itself when it is no longer than
\* max_length) and returns that value, for either value of add.
C1_TruncatesOnCopy ==
    (/\ Saved
     /\ TargetOf(last.before) = Empty
     /\ Resolves(last.before)
     /\ users[SourceOf(last.before)] # Empty)
    => LET u == users[SourceOf(last.before)]
           m == last.field.max_length
       IN  /\ last.raised = ""
           /\ TargetOf(last.obj) = FirstChars(u, m)
           /\ last.ret = FirstChars(u, m)

\* a copy that cut the username, made with add set
C1_Witness ==
    /\ Saved
    /\ last.add
    /\ TargetOf(last.before) = Empty
    /\ Resolves(last.before)
    /\ Len(users[SourceOf(last.before)]) > last.field.max_length
    /\ last.field.max_length > 0
    /\ last.ret = FirstChars(users[SourceOf(last.before)], last.field.max_length)
    /\ last.ret # users[SourceOf(last.before)]

\* C4: on an instance whose target is a non-empty string, one pre_save call or
\* two in succession leave the instance unchanged and return the target,
\* whatever the relation is (a user of another name, null, dangling).
C4_NonEmptyTargetKept ==
    (Saved /\ TargetOf(last.orig) # Empty)
    => /\ last.raised = ""
       /\ last.obj = last.orig
       /\ last.ret = TargetOf(last.orig)

\* the second of two calls, the related user having another name
C4_Witness ==
    /\ Saved
    /\ last.calls = 2
    /\ TargetOf(last.orig) # Empty
    /\ Resolves(last.orig)
    /\ users[SourceOf(last.orig)] # TargetOf(last.orig)
    /\ users[SourceOf(last.orig)] # Empty
    /\ last.ret = TargetOf(last.orig)

\* C5: on an instance whose target is empty and whose relation refers to a
\* missing row, pre_save raises nothing, leaves the target empty and returns
\* the empty string.
C5_DanglingSwallowed ==
    (Saved /\ TargetOf(last.before) = Empty /\ Dangling(last.before))
    => /\ last.raised = ""
       /\ last.obj = last.before
       /\ last.ret = Empty

C5_Witness ==
    /\ Saved
    /\ TargetOf(last.before) = Empty
    /\ Dangling(last.before)
    /\ last.raised = ""

\* C6, as stated: for every instance whose relation is null, after pre_save the
\* target is the empty string and pre_save returns the empty string.
C6_NullAlwaysEmpty ==
    (Saved /\ SourceOf(last.before) = None)
    => /\ last.raised = ""
       /\ TargetOf(last.obj) = Empty
       /\ last.ret = Empty

\* C6, amended: for every instance whose target is empty and whose relation is
\* null, after pre_save the target is the empty string and pre_save returns the
\* empty string.
C6_NullYieldsEmpty ==
    (Saved /\ TargetOf(last.before) = Empty /\ SourceOf(last.before) = None)
    => /\ last.raised = ""
       /\ TargetOf(last.obj) = Empty
       /\ last.ret = Empty

C6_Witness ==
    /\ Saved
    /\ TargetOf(last.before) = Empty
    /\ SourceOf(last.before) = None
    /\ last.ret = Empty
    /\ last.raised = ""

---------------------------------------------------------------------------
(* Properties of the registry and of rename_username and lint, checked under
   Spec *)

\* the parts of a registry entry
ModelOf(e) == e[1]
SourceNameOf(e) == e[2]
TargetNameOf(e) == e[3]
MaxLengthOf(e) == e[4]

\* the rows of an entry's model that refer to the user
RowsOfUser(e, user_id) ==
    {pk \in DOMAIN rows[ModelOf(e)] : rows[ModelOf(e)][pk][SourceNameOf(e)] = user_id}

\* the value an entry's target holds in a row
Held(e, pk) == rows[ModelOf(e)][pk][TargetNameOf(e)]

\* a rename_username call has just run to completion
Renamed == last.op = "rename_username"

\* C2: when rename_username(user_id, username) has run to completion, every
\* row of every registry entry's model whose source relation is user_id holds
\* the first max_length characters of username in the entry's target, and the
\* user record of that id holds the whole username.
C2_RenameCompletes ==
    Renamed
    => /\ \A i \in 1..Len(instances) :
            \A pk \in RowsOfUser(instances[i], last.user_id) :
               Held(instances[i], pk)
                 = FirstChars(last.username, MaxLengthOf(instances[i]))
       /\ last.user_id \in DOMAIN users => users[last.user_id] = last.username

\* a completed rename that cut the username for one entry and not for the other
C2_Witness ==
    /\ Renamed
    /\ last.user_id \in DOMAIN users
    /\ \E i, j \in 1..Len(instances) :
         /\ RowsOfUser(instances[i], last.user_id) # {}
         /\ RowsOfUser(instances[j], last.user_id) # {}
         /\ Len(last.username) > MaxLengthOf(instances[i])
         /\ Len(last.username) <= MaxLengthOf(instances[j])

EntryA == <<"ModelA", "user", "uname_a", 30>>
EntryB == <<"ModelB", "author", "uname_b", 10>>

\* rename_username(user_id, "alice") has completed over the registry of the
\* two entries (ModelA, "user", "uname_a", 30), (ModelB, "author", "uname_b", 10)
RenamedToAlice ==
    /\ Renamed
    /\ last.username = alice
    /\ instances = <<EntryA, EntryB>>

\* C3, as stated: ... every ModelA row of the user holds uname_a = "alice",
\* every ModelB row of the user holds uname_b = "alic", and the user's username
\* is "alice".
C3_AliceCutToAlic ==
    RenamedToAlice
    => /\ \A pk \in RowsOfUser(EntryA, last.user_id) : Held(EntryA, pk) = alice
       /\ \A pk \in RowsOfUser(EntryB, last.user_id) : Held(EntryB, pk) = alic
       /\ last.user_id \in DOMAIN users => users[last.user_id] = alice

\* C3, amended: ... every ModelA row of the user holds uname_a = "alice", every
\* ModelB row of the user holds uname_b = "alice" (the first 10 characters of
\* "alice" are all five of them), and the user's username is "alice".
C3_AliceKeptWhole ==
    RenamedToAlice
    => /\ \A pk \in RowsOfUser(EntryA, last.user_id) : Held(EntryA, pk) = alice
       /\ \A pk \in RowsOfUser(EntryB, last.user_id) : Held(EntryB, pk) = alice
       /\ last.user_id \in DOMAIN users => users[last.user_id] = alice

C3_Witness ==
    /\ RenamedToAlice
    /\ last.user_id \in DOMAIN users
    /\ RowsOfUser(EntryA, last.user_id) # {}
    /\ RowsOfUser(EntryB, last.user_id) # {}

\* lint has just run
Linted == last.op = "lint"

\* the rows of an entry's model whose target is not the current username of a
\* related user (a row whose relation is null or dangling has no related user
\* whose username its target could be)
Mismatched(e) ==
    {pk \in DOMAIN rows[ModelOf(e)] :
        LET id == rows[ModelOf(e)][pk][SourceNameOf(e)] IN
        ~(id \in DOMAIN users /\ users[id] = Held(e, pk))}

\* the registry entries lint has to warn for, and those of one model and field
Warnable ==
    {i \in 1..Len(instances) :
        MaxLengthOf(instances[i]) >= 30 /\ Mismatched(instances[i]) # {}}

WarnableFor(model, target) ==
    {i \in Warnable :
        ModelOf(instances[i]) = model /\ TargetNameOf(instances[i]) = target}

\* the warnings printed, and those that name one model and field
Warnings == {j \in 1..Len(last.printed) : last.printed[j].kind = "W"}

WarningsFor(model, target) ==
    {j \in Warnings :
        last.printed[j].model = model /\ last.printed[j].target = target}

\* the columns registry entries name
Columns == {<<ModelOf(instances[i]), TargetNameOf(instances[i])>> :
                i \in 1..Len(instances)}

\* C7: lint warns for a registry entry exactly when the entry has
\* max_length >= 30 and some row of its model has a target that differs from
\* the current username of its related user: one warning per such entry, naming
\* the model, the field and the mismatched primary keys; no warning for an entry
\* whose rows all match; an entry with max_length < 30 is neither queried nor
\* warned for.
C7_LintWarnsExactly ==
    Linted
    => /\ \A c \in Columns :
            Cardinality(WarningsFor(c[1], c[2])) = Cardinality(WarnableFor(c[1], c[2]))
       /\ \A j \in Warnings :
            \E i \in WarnableFor(last.printed[j].model, last.printed[j].target) :
               /\ last.printed[j].qs = Mismatched(instances[i])
               /\ last.printed[j].total = Cardinality(Mismatched(instances[i]))
       /\ \A i \in 1..Len(instances) :
            (\E k \in 1..Len(last.queried) : last.queried[k] = i)
              <=> MaxLengthOf(instances[i]) >= 30

\* lint over an entry of max_length 30 with a mismatched row, an entry of a
\* smaller max_length with a mismatched row, one warning in all
C7_Witness ==
    /\ Linted
    /\ Cardinality(Warnings) = 1
    /\ \E i, j \in 1..Len(instances) :
         /\ MaxLengthOf(instances[i]) = 30
         /\ Mismatched(instances[i]) = {1}
         /\ MaxLengthOf(instances[j]) < 30
         /\ Mismatched(instances[j]) # {}

\* the entries a rename_username call has updated so far, in the order of the
\* updates, as positions in the registry
InOrder(log) == \A k \in 1..Len(log) : log[k] = k

\* C8, as stated: ... in every intermediate state of a rename, if the canonical
\* username already equals new_username then every registry entry has already
\* been updated, and entries are updated in registration order.
C8_CanonicalEqualMeansDone ==
    pc = "rename"
    => /\ InOrder(rn.log)
       /\ (rn.user_id \in DOMAIN users /\ users[rn.user_id] = rn.username)
            => Len(rn.log) = Len(instances)

\* C8, amended: registry entries are updated one after another in registration
\* order and the user record is written strictly after the update of every
\* entry; hence in every intermediate state of a rename the user record has not
\* been written by it (its username equals new_username only if it did when the
\* rename began), the entries updated so far are the first ones of the registry
\* in order, and the completed rename has written every entry in order and then
\* the user record.
C8_CanonicalWrittenLast ==
    /\ pc = "rename"
       => /\ InOrder(rn.log)
          /\ Len(rn.log) = rn.pos - 1
          /\ users = rn.canonical0
    /\ last.op = "interrupted" => InOrder(last.log)
    /\ Renamed
       => /\ Len(last.log) = Len(instances) + 1
          /\ InOrder(SubSeq(last.log, 1, Len(instances)))
          /\ last.log[Len(last.log)] = UserTable

\* a rename of an existing user over two entries, the second not yet updated,
\* the user record not yet holding the new name
C8_Witness ==
    /\ pc = "rename"
    /\ Len(instances) = 2
    /\ rn.log = <<1>>
    /\ rn.user_id \in DOMAIN users
    /\ users[rn.user_id] # rn.username

\* an entry the interrupted rename has updated, a row of which now differs from
\* the username the user record still holds
Affected(call, i) ==
    /\ \E k \in 1..Len(call.log) : call.log[k] = i
    /\ call.user_id \in DOMAIN users
    /\ \E pk \in RowsOfUser(instances[i], call.user_id) :
         Held(instances[i], pk) # users[call.user_id]

\* C9, as stated: after rename_username was interrupted before it wrote the
\* user record, a following lint warns for every entry it had updated that has
\* a row differing from the user's stale username; lint changes no row, no user
\* and no registry entry.
C9_LintDetectsPartialRename ==
    [][last'.op = "lint"
       => /\ UNCHANGED <<instances, users, rows>>
          /\ last.op = "interrupted"
             => \A i \in 1..Len(instances) :
                  Affected(last, i)
                  => \E j \in 1..Len(last'.printed) :
                       /\ last'.printed[j].kind = "W"
                       /\ last'.printed[j].model = ModelOf(instances[i])
                       /\ last'.printed[j].target = TargetNameOf(instances[i])]_vars

\* C9, amended: ... a following lint warns for every entry of max_length >= 30
\* it had updated that has a row differing from the user's stale username (an
\* entry of a smaller max_length is skipped by lint, so its inconsistency is
\* not reported); lint changes no row, no user and no registry entry.
C9_LintDetectsPartialRenameUnlessSkipped ==
    [][last'.op = "lint"
       => /\ UNCHANGED <<instances, users, rows>>
          /\ last.op = "interrupted"
             => \A i \in 1..Len(instances) :
                  (Affected(last, i) /\ MaxLengthOf(instances[i]) >= 30)
                  => \E j \in 1..Len(last'.printed) :
                       /\ last'.printed[j].kind = "W"
                       /\ last'.printed[j].model = ModelOf(instances[i])
                       /\ last'.printed[j].target = TargetNameOf(instances[i])]_vars

\* lint has run after an interrupted rename that left an entry of max_length
\* 30 differing from the user record, and has warned
C9_Witness ==
    /\ Linted
    /\ last.interrupted # <<>>
    /\ \E i \in 1..Len(instances) :
         /\ Affected(last.interrupted[1], i)
         /\ MaxLengthOf(instances[i]) >= 30
         /\ WarningsFor(ModelOf(instances[i]), TargetNameOf(instances[i])) # {}

\* the registry the contribute_to_class calls made so far call for: one tuple
\* per call on a non-abstract model, in call order
Called(calls) ==
    LET kept == SelectSeq(calls, LAMBDA c : ~Abstract(c.cls)) IN
    [k \in 1..Len(kept) |->
        <<kept[k].cls, kept[k].field.populate_from, kept[k].name,
          kept[k].field.max_length>>]

IsPrefix(s, t) == Len(s) <= Len(t) /\ SubSeq(t, 1, Len(s)) = s

\* C10: after any sequence of contribute_to_class, pre_save, rename_username and
\* lint operations the registry holds, in call order, exactly one tuple (model,
\* populate_from, field name, max_length) per contribute_to_class call on a
\* non-abstract model and none for a call on an abstract model; no operation
\* removes or alters an entry, so the registry only grows.
C10_RegistryGrowsOnly ==
    /\ [](instances = Called(registered))
    /\ [][IsPrefix(instances, instances')]_vars

\* a registry of one entry after a call on the abstract model and one on a
\* concrete model, rename_username and lint having run since
C10_Witness ==
    /\ Linted
    /\ last.interrupted # <<>>
    /\ Len(registered) = 2
    /\ Len(instances) = 1
    /\ Abstract(registered[1].cls)

====
